---- MODULE Spec2Model ----
(***************************************************************************)
(* A model of server.py: the API-key middleware, the slowapi limiter on    *)
(* POST /api/rate/{point_id}, the five route handlers and the wifi_points  *)
(* table they read and write.  Several server processes (each with its own *)
(* event loop and its own in-memory limiter) share one store.              *)
(***************************************************************************)
EXTENDS Integers, Sequences, FiniteSets, TLC

(* ------------------------------ bounds --------------------------------- *)
\* requests in one behaviour
MaxReq == 2
\* server processes running the application against the same store
NumServers == 2
\* rows of wifi_points (ids 1..NumPoints); id NumPoints + 1 has no row
NumPoints == 2
\* clock ticks in one behaviour
MaxTicks == 2

(* --------------------------- configuration ----------------------------- *)
API_KEY_NAME == "x-api-key"
API_KEY == "secret"
XFF == "x-forwarded-for"
\* @limiter.limit("1/10 minutes")
LimitAmount == 1
LimitMinutes == 10
\* the clock advances in half windows
TickStep == LimitMinutes \div 2

Reqs == 1..MaxReq
Servers == 1..NumServers
Rows == 1..NumPoints
PointIds == 1..(NumPoints + 1)

(* ------------------------------ values --------------------------------- *)
\* a nullable numeric column / Python float-or-None, in hundredths
SqlNull == [null |-> TRUE, v |-> 0]
Num(n) == [null |-> FALSE, v |-> n]

\* a decoded JSON value as Python sees it: t is its Python type
PyInt(n) == [t |-> "int", v |-> n]
PyBool(b) == [t |-> "bool", v |-> IF b THEN 1 ELSE 0]
PyFloat(n) == [t |-> "float", v |-> n]
PyStr == [t |-> "str", v |-> 0]
PyNone == [t |-> "NoneType", v |-> 0]
PyList == [t |-> "list", v |-> 0]

\* a request body: kind is what json.loads makes of it ("invalid": it raises),
\* has says whether "rating" in data is true, rating is data["rating"]
Body(kind, has, rating) == [kind |-> kind, has |-> has, rating |-> rating]
RatingBody(x) == Body("dict", TRUE, x)
NoBody == Body("none", FALSE, PyNone)

\* one entry of a comma-separated header value, with its surrounding blanks
Entry(lead, text, trail) == [lead |-> lead, text |-> text, trail |-> trail]
\* ip.strip()
Strip(e) == e.text

NoHeaders == [h \in {} |-> ""]

(* --------------------------- pure functions ---------------------------- *)
RECURSIVE Sum(_)
Sum(s) == IF s = <<>> THEN 0 ELSE Head(s) + Sum(Tail(s))

\* (variant: a tie rounded up)
RoundHalfUp(total, n) ==
    LET q == (100 * total) \div n
        rem == (100 * total) % n
    IN  IF 2 * rem >= n THEN q + 1 ELSE q
\* round(total / n, 2) in hundredths: Python rounds the quotient to the
\* nearest hundredth and an exact tie (only n divisible by 8 gives one, and
\* then the float is exact) to the even neighbour
Round2(total, n) ==
    LET q == (100 * total) \div n
        rem == (100 * total) % n
    IN  IF 2 * rem > n THEN q + 1
        ELSE IF 2 * rem < n THEN q
        ELSE IF q % 2 = 0 THEN q ELSE q + 1

\* (variant: the peer address alone, as slowapi's get_remote_address)
PeerKey(headers, peer) ==
    IF peer # "" THEN peer ELSE "unknown"
\* get_real_client_ip(request); split(",") never yields an empty list
get_real_client_ip(headers, peer) ==
    IF XFF \in DOMAIN headers /\ Len(headers[XFF]) > 0
    THEN Strip(headers[XFF][1])
    ELSE IF peer # "" THEN peer ELSE "unknown"

\* (variant: only an absent header counts as missing)
KeyStatusNoEmptyCheck(headers) ==
    IF API_KEY_NAME \notin DOMAIN headers THEN 401
    ELSE IF headers[API_KEY_NAME] # API_KEY THEN 403
    ELSE 0
\* verify_api_key_middleware: 0 stands for call_next(request)
KeyStatus(headers) ==
    IF API_KEY_NAME \notin DOMAIN headers \/ headers[API_KEY_NAME] = "" THEN 401
    ELSE IF headers[API_KEY_NAME] # API_KEY THEN 403
    ELSE 0
KeyContent(status) ==
    IF status = 401 THEN "API key is missing" ELSE "Invalid API key"

\* rate_point, lines 182-206: the response of the validation, status 0 when
\* the body passes.  An exception nobody catches is a 500.
Validate(body) ==
    IF body.kind = "invalid"
      THEN [status |-> 500, content |-> "JSONDecodeError"]
    ELSE IF body.kind = "scalar"
      THEN [status |-> 500, content |-> "TypeError"]
    ELSE IF ~body.has
      THEN [status |-> 400, content |-> "Rating field is required"]
    ELSE IF body.kind # "dict"
      THEN [status |-> 500, content |-> "TypeError"]
    ELSE IF body.rating.t \notin {"int", "bool"}
      THEN [status |-> 400, content |-> "Rating must be an integer"]
    ELSE IF body.rating.v < 1 \/ body.rating.v > 5
      THEN [status |-> 400, content |-> "Rating must be between 1 and 5"]
    ELSE [status |-> 0, content |-> ""]

\* (variant: the new rating put first)
AppendFront(ratings, rating) == <<rating>> \o ratings
\* rate_point, lines 219-221 and 227: the new list and the new average
AddRating(ratings, rating) == Append(ratings, rating)
NewAvg(ratings) == Round2(Sum(ratings), Len(ratings))

\* create_map, lines 89-97: the colour of one marker; a None rating makes
\* the comparison raise
Color(rating) ==
    IF rating.null THEN "TypeError"
    ELSE IF rating.v > 0 /\ rating.v <= 250 THEN "darkorange"
    ELSE IF rating.v > 250 /\ rating.v <= 450 THEN "blue"
    ELSE IF rating.v > 450 THEN "green"
    ELSE "gray"

(* ------------------------------- state --------------------------------- *)
VARIABLES
    store,      \* wifi_points: id -> [ratings, avg], committed rows
    limiter,    \* per server process: the limiter's memory, key -> [count, expiry]
    now,        \* the clock, in minutes
    req         \* the requests: position in the code, inputs, locals, response

vars == <<store, limiter, now, req>>

Row(ratings) ==
    [ratings |-> ratings,
     avg |-> IF ratings = <<>> THEN SqlNull
             ELSE Num(Round2(Sum(ratings), Len(ratings)))]

IdleReq ==
    [pc |-> "idle", srv |-> 0, route |-> "", headers |-> NoHeaders, peer |-> "",
     point_id |-> 0, body |-> NoBody, row |-> <<>>, ratings |-> <<>>,
     conn |-> "none",
     at |-> 0, status |-> 0, content |-> "", data |-> <<>>]

Input(route, headers, peer, point_id, body) ==
    [route |-> route, headers |-> headers, peer |-> peer,
     point_id |-> point_id, body |-> body]

InitWith(Stores) ==
    /\ store \in Stores
    /\ limiter = [s \in Servers |-> [k \in {} |-> [count |-> 0, expiry |-> 0]]]
    /\ now = 0
    /\ req = [r \in Reqs |-> IdleReq]

(* ---------------------------- scheduling ------------------------------- *)
\* The handlers are coroutines on the server's one event loop and psycopg2
\* blocks it: from get_db() to the return nothing else runs on that server.
SyncPcs == {"select", "update", "commit"}
ServerFree(s, r) ==
    \A q \in Reqs \ {r} : req[q].srv = s => req[q].pc \notin SyncPcs
CanRun(r) == ServerFree(req[r].srv, r)

Finish(q, status, content, data, conn) ==
    [q EXCEPT !.pc = "done", !.status = status, !.content = content,
              !.data = data, !.conn = conn]

(* ----------------------------- middleware ------------------------------ *)
\* The servers are alike: they are numbered in the order in which requests
\* first reach them.
FirstUnused ==
    LET used == { req[q].srv : q \in Reqs } \ {0}
    IN  IF used = {} THEN 1 ELSE 1 + CHOOSE m \in used : \A n \in used : n <= m

\* a request arrives at a server and passes verify_api_key_middleware
Receive(r, Inputs) ==
    /\ req[r].pc = "idle"
    /\ IF r = 1 THEN TRUE ELSE req[r - 1].pc # "idle"
    /\ \E s \in Servers, i \in Inputs :
         LET st == KeyStatus(i.headers)
             q == [IdleReq EXCEPT !.srv = s, !.route = i.route,
                                  !.headers = i.headers, !.peer = i.peer,
                                  !.point_id = i.point_id, !.body = i.body]
         IN  /\ s <= FirstUnused
             /\ ServerFree(s, r)
             /\ req' = [req EXCEPT ![r] =
                          IF st = 0 THEN [q EXCEPT !.pc = "routed"]
                          ELSE Finish(q, st, KeyContent(st), <<>>, "none")]
    /\ UNCHANGED <<store, limiter, now>>

(* ------------------------------- limiter ------------------------------- *)
\* the fixed window of the limiter's memory storage: an expired entry is
\* dropped, the first hit of a window sets its expiry
Live(s, k) == k \in DOMAIN limiter[s] /\ limiter[s][k].expiry > now
HitCount(s, k) == IF Live(s, k) THEN limiter[s][k].count + 1 ELSE 1
HitExpiry(s, k) == IF Live(s, k) THEN limiter[s][k].expiry ELSE now + LimitMinutes

\* @limiter.limit("1/10 minutes") around rate_point
Limit(r) ==
    /\ req[r].pc = "routed"
    /\ req[r].route = "/api/rate"
    /\ CanRun(r)
    /\ LET s == req[r].srv
           k == get_real_client_ip(req[r].headers, req[r].peer)
           entry == [count |-> HitCount(s, k), expiry |-> HitExpiry(s, k)]
       IN  /\ limiter' = [limiter EXCEPT ![s] =
                            [x \in DOMAIN limiter[s] \cup {k} |->
                               IF x = k THEN entry ELSE limiter[s][x]]]
           /\ req' = [req EXCEPT ![r] =
                        IF entry.count <= LimitAmount
                        THEN [@ EXCEPT !.pc = "admitted", !.at = now]
                        ELSE Finish(@, 429, "Rate limit exceeded", <<>>, "none")]
    /\ UNCHANGED <<store, now>>

Tick ==
    /\ now < MaxTicks * TickStep
    /\ now' = now + TickStep
    /\ UNCHANGED <<store, limiter, req>>

(* ------------------------ POST /api/rate/{id} -------------------------- *)
NotFoundText == "point not found"

\* lines 182-209: the body is read and validated, then get_db() and cursor()
RateValidate(r) ==
    /\ req[r].pc = "admitted"
    /\ CanRun(r)
    /\ LET v == Validate(req[r].body)
       IN  req' = [req EXCEPT ![r] =
                     IF v.status # 0
                     THEN Finish(@, v.status, v.content, <<>>, "none")
                     ELSE [@ EXCEPT !.pc = "select", !.conn = "open"]]
    /\ UNCHANGED <<store, limiter, now>>

\* lines 211-221: SELECT ratings; no row: close and return the error body
\* (no status code is set, so it is a 200); else append to the list read
Select(r) ==
    /\ req[r].pc = "select"
    /\ LET id == req[r].point_id
       IN  req' = [req EXCEPT ![r] =
                     IF id \notin DOMAIN store
                     THEN Finish(@, 200, NotFoundText, <<>>, "closed")
                     ELSE [@ EXCEPT !.pc = "update",
                                    !.row = store[id].ratings,
                                    !.ratings = AddRating(store[id].ratings,
                                                          req[r].body.rating.v)]]
    /\ UNCHANGED <<store, limiter, now>>

\* the row lock of an UPDATE that has not been committed yet
Locked(id, r) ==
    \E q \in Reqs \ {r} : req[q].pc = "commit" /\ req[q].point_id = id

\* lines 223-227: the UPDATE waits for the row lock; the list is sent as an
\* array literal, and one holding True is no integer array: the store raises
Update(r) ==
    /\ req[r].pc = "update"
    /\ ~Locked(req[r].point_id, r)
    /\ req' = [req EXCEPT ![r] =
                 IF req[r].body.rating.t = "bool"
                 THEN Finish(@, 500, "DatatypeMismatch", <<>>, "open")
                 ELSE [@ EXCEPT !.pc = "commit"]]
    /\ UNCHANGED <<store, limiter, now>>

\* (variant: the store appends to the list it holds)
ServerSideAppend(old, ratings) ==
    LET merged == Append(old.ratings, ratings[Len(ratings)])
    IN  [ratings |-> merged, avg |-> Num(NewAvg(merged))]
\* the row the UPDATE writes: both columns, from the handler's own list
UpdatedRow(old, ratings) ==
    [ratings |-> ratings, avg |-> Num(NewAvg(ratings))]

\* lines 229-233: commit, close, return
Commit(r) ==
    /\ req[r].pc = "commit"
    /\ LET id == req[r].point_id
       IN  /\ store' = [store EXCEPT ![id] = UpdatedRow(@, req[r].ratings)]
           /\ req' = [req EXCEPT ![r] = Finish(@, 200, "ok", <<id>>, "closed")]
    /\ UNCHANGED <<limiter, now>>

(* ----------------------------- GET routes ------------------------------ *)
\* main_page: the rows are read, the connection closed, then create_map
MainPage(r) ==
    /\ req[r].pc = "routed"
    /\ req[r].route = "/"
    /\ CanRun(r)
    /\ LET colors == [i \in DOMAIN store |-> Color(store[i].avg)]
       IN  req' = [req EXCEPT ![r] =
                     IF \E i \in DOMAIN store : colors[i] = "TypeError"
                     THEN Finish(@, 500, "TypeError", <<>>, "closed")
                     ELSE Finish(@, 200, "html", colors, "closed")]
    /\ UNCHANGED <<store, limiter, now>>

\* float(x) if x else 0.0
RatingOrZero(avg) == IF avg.null \/ avg.v = 0 THEN 0 ELSE avg.v

GetData(r) ==
    /\ req[r].pc = "routed"
    /\ req[r].route = "/api/data"
    /\ CanRun(r)
    /\ req' = [req EXCEPT ![r] =
                 Finish(@, 200, "points",
                        [i \in DOMAIN store |-> RatingOrZero(store[i].avg)],
                        "closed")]
    /\ UNCHANGED <<store, limiter, now>>

GetPoint(r) ==
    /\ req[r].pc = "routed"
    /\ req[r].route = "/point"
    /\ CanRun(r)
    /\ LET id == req[r].point_id
       IN  req' = [req EXCEPT ![r] =
                     IF id \notin DOMAIN store
                     THEN Finish(@, 404, NotFoundText, <<>>, "closed")
                     ELSE Finish(@, 200, "point",
                                 <<id, RatingOrZero(store[id].avg)>>, "closed")]
    /\ UNCHANGED <<store, limiter, now>>

TestDb(r) ==
    /\ req[r].pc = "routed"
    /\ req[r].route = "/test-db"
    /\ CanRun(r)
    /\ req' = [req EXCEPT ![r] = Finish(@, 200, "db_status ok", <<1>>, "closed")]
    /\ UNCHANGED <<store, limiter, now>>

(* ---------------------------- store errors ----------------------------- *)
\* test_db catches the exception; everywhere else it becomes a 500
ErrorStatus(route) == IF route = "/test-db" THEN 200 ELSE 500
ErrorContent(route) ==
    IF route = "/test-db" THEN "db_status error" ELSE "Internal Server Error"

\* the handler is about to call get_db()
AtConnect(r) ==
    \/ req[r].pc = "routed" /\ req[r].route # "/api/rate"
    \/ req[r].pc = "admitted" /\ Validate(req[r].body).status = 0

\* psycopg2.connect raises: there is no connection to close
ConnectFails(r) ==
    /\ AtConnect(r)
    /\ CanRun(r)
    /\ req' = [req EXCEPT ![r] =
                 Finish(@, ErrorStatus(@.route), ErrorContent(@.route), <<>>, "none")]
    /\ UNCHANGED <<store, limiter, now>>

\* execute or commit raises on an open connection: no handler has a finally,
\* the close() calls are skipped; the transaction is rolled back
QueryFails(r) ==
    /\ AtConnect(r) \/ req[r].pc \in SyncPcs
    /\ CanRun(r)
    /\ req' = [req EXCEPT ![r] =
                 Finish(@, ErrorStatus(@.route), ErrorContent(@.route), <<>>, "open")]
    /\ UNCHANGED <<store, limiter, now>>

(* ------------------------------- inputs -------------------------------- *)
KeyHeader(k) == (API_KEY_NAME :> k)
GoodKey == KeyHeader(API_KEY)
\* no x-api-key header, an empty one, a wrong one, the configured one
KeyHeaders == {NoHeaders, KeyHeader(""), KeyHeader("wrong"), GoodKey}

Peer1 == "10.0.0.1"
Peer2 == "10.0.0.2"
\* [headers, peer]: a direct client, and two requests whose forwarded-for
\* chains start with the same address and that come through different peers
Clients ==
    { [headers |-> NoHeaders, peer |-> Peer1],
      [headers |-> (XFF :> <<Entry(0, "203.0.113.7", 1)>>), peer |-> Peer1],
      [headers |-> (XFF :> <<Entry(1, "203.0.113.7", 0), Entry(1, Peer1, 0)>>),
       peer |-> Peer2] }

\* bodies that are no JSON object with a rating field
MalformedBodies ==
    { Body("invalid", FALSE, PyNone),      \* not JSON at all
      Body("scalar", FALSE, PyNone),       \* 5, null, true
      Body("str", FALSE, PyNone),          \* "abc"
      Body("str", TRUE, PyNone),           \* "my rating"
      Body("list", FALSE, PyNone),         \* [1]
      Body("list", TRUE, PyNone),          \* ["rating"]
      Body("dict", FALSE, PyNone) }        \* {}
\* rating values that are no integer
NonIntRatings ==
    { PyFloat(3), PyStr, PyNone, PyList, PyBool(TRUE), PyBool(FALSE) }

\* submissions that pass the validation, for every id, and one that does not
RateInputs ==
    { Input("/api/rate", GoodKey, Peer1, id, RatingBody(PyInt(5))) :
        id \in PointIds }
    \cup { Input("/api/rate", GoodKey, Peer1, 1, RatingBody(PyInt(n))) :
        n \in {2, 6} }

\* every shape of body, for one point
BodyInputs ==
    { Input("/api/rate", GoodKey, Peer1, 1, b) :
        b \in MalformedBodies
              \cup { RatingBody(x) : x \in NonIntRatings }
              \cup { RatingBody(PyInt(n)) : n \in {0, 1, 5, 6} } }

RouteInputs ==
    { Input(route, h, Peer1, 1, NoBody) :
        route \in {"/", "/api/data", "/test-db"}, h \in KeyHeaders }
    \cup { Input("/point", h, Peer1, id, NoBody) :
        h \in KeyHeaders, id \in {1, NumPoints + 1} }
    \cup { Input("/api/rate", h, Peer1, 1, RatingBody(PyInt(4))) :
        h \in KeyHeaders }

\* the request that comes through the second peer rates another point
LimitInputs ==
    { Input("/api/rate", GoodKey @@ c.headers, c.peer,
            IF c.peer = Peer2 THEN 2 ELSE 1, RatingBody(PyInt(3))) :
        c \in Clients }

\* stores the service can find: a row is unrated (NULL or 0 average) or
\* carries a history with its average
Sevens == <<1, 1, 1, 1, 1, 1, 1>>
RateStores ==
    { [i \in Rows |-> Row(IF i = 1 THEN a ELSE b)] :
        a \in {<<>>, Sevens}, b \in {<<>>, <<4, 5>>} }
RouteRows ==
    { Row(<<>>), [ratings |-> <<>>, avg |-> Num(0)], Row(<<2, 3>>),
      Row(<<4, 5>>), Row(<<5, 5, 4>>) }
RouteStores ==
    { [i \in Rows |-> IF i = 1 THEN x ELSE Row(<<4, 5>>)] : x \in RouteRows }
LimitStores == { [i \in Rows |-> Row(<<>>)] }

(* --------------------------- specifications ---------------------------- *)
\* rating submissions of authenticated clients, with store errors
Init == InitWith(RateStores)
Next ==
    \E r \in Reqs :
        \/ Receive(r, RateInputs)
        \/ Limit(r)
        \/ RateValidate(r)
        \/ Select(r)
        \/ Update(r)
        \/ Commit(r)
        \/ ConnectFails(r)
        \/ QueryFails(r)
Spec == Init /\ [][Next]_vars

\* rating submissions with every shape of body
InitBody == InitWith(LimitStores)
NextBody ==
    \E r \in Reqs :
        \/ Receive(r, BodyInputs)
        \/ Limit(r)
        \/ RateValidate(r)
        \/ Select(r)
        \/ Update(r)
        \/ Commit(r)
SpecBody == InitBody /\ [][NextBody]_vars

\* every route, with every kind of API key
InitRoutes == InitWith(RouteStores)
NextRoutes ==
    \E r \in Reqs :
        \/ Receive(r, RouteInputs)
        \/ Limit(r)
        \/ RateValidate(r)
        \/ Select(r)
        \/ Update(r)
        \/ Commit(r)
        \/ MainPage(r)
        \/ GetData(r)
        \/ GetPoint(r)
        \/ TestDb(r)
SpecRoutes == InitRoutes /\ [][NextRoutes]_vars

\* rating submissions of several clients while the clock advances
InitLimit == InitWith(LimitStores)
NextLimit ==
    \/ Tick
    \/ \E r \in Reqs :
        \/ Receive(r, LimitInputs)
        \/ Limit(r)
        \/ RateValidate(r)
        \/ Select(r)
        \/ Update(r)
        \/ Commit(r)
SpecLimit == InitLimit /\ [][NextLimit]_vars

(* ------------------------------- claims -------------------------------- *)
Abs(x) == IF x < 0 THEN -x ELSE x
\* h hundredths is the mean of the list rounded to two decimals: the nearest
\* hundredth, of two equally near the even one
IsRoundedMean(h, s) ==
    LET d == 100 * Sum(s) - h * Len(s)
    IN  2 * Abs(d) < Len(s) \/ (2 * Abs(d) = Len(s) /\ h % 2 = 0)

IsRate(r) == req[r].route = "/api/rate"
\* the rating a submission carries
Rating(r) == req[r].body.rating.v
\* the handler's commit returns and it closes its connection in this step
Commits(r) ==
    req[r].pc = "commit" /\ req'[r].pc = "done" /\ req'[r].conn = "closed"

\* C1: in every reachable state, a point with a non-empty rating list has
\* the mean of that list, rounded to two decimals, as its stored average.
C1_AverageIsRoundedMean ==
    \A i \in DOMAIN store :
        store[i].ratings # <<>> =>
            /\ ~store[i].avg.null
            /\ IsRoundedMean(store[i].avg.v, store[i].ratings)

\* a submission was answered ok and the row holds the list it wrote
C1_Witness ==
    \E r \in Reqs :
        /\ req[r].pc = "done" /\ req[r].content = "ok"
        /\ store[req[r].point_id].ratings = req[r].ratings

\* C2: a submission that commits while the stored list is still the one it
\* read (no other submission for the point wrote meanwhile) leaves the prior
\* list with its rating appended, the rounded mean of the new list as the
\* average, every other row as it was, and answers 200 ok with the point id.
C2_AcceptedAppends ==
    [][\A r \in Reqs :
         LET id == req[r].point_id
         IN  (Commits(r) /\ store[id].ratings = req[r].row) =>
                 /\ store'[id].ratings = Append(store[id].ratings, Rating(r))
                 /\ ~store'[id].avg.null
                 /\ IsRoundedMean(store'[id].avg.v, store'[id].ratings)
                 /\ \A j \in DOMAIN store \ {id} : store'[j] = store[j]
                 /\ req'[r].status = 200
                 /\ req'[r].content = "ok"
                 /\ req'[r].data = <<id>>]_vars

\* the only submission of the behaviour was answered ok for a point that
\* had ratings, and the row holds them with the new one at the end
C2_Witness ==
    \E r \in Reqs :
        /\ req[r].pc = "done" /\ req[r].content = "ok" /\ req[r].status = 200
        /\ req[r].row # <<>>
        /\ store[req[r].point_id].ratings = Append(req[r].row, Rating(r))
        /\ \A q \in Reqs \ {r} : req[q].pc = "idle"

\* C3 (as claimed): a submission whose rating is 0, 6 or no integer never
\* gets past the validation: it is answered 400 with no connection opened.
C3_BadRatingIs400 ==
    \A r \in Reqs :
        LET b == req[r].body
        IN  (/\ IsRate(r)
             /\ b.kind = "dict" /\ b.has
             /\ (b.rating.t # "int" \/ b.rating.v \in {0, 6})
             /\ req[r].pc \notin {"idle", "routed", "admitted"}
             /\ req[r].status # 429)
            => (req[r].pc = "done" /\ req[r].status = 400 /\ req[r].conn = "none")

\* C4: when a submission commits after another one for the same point that
\* had read the same prior list and was answered ok, it is answered 200 too
\* and the row holds the prior list plus its own rating only: one element
\* more than the prior list, the other submission's rating gone.
C4_LaterWriteWins ==
    [][\A r, q \in Reqs :
         LET id == req[r].point_id
         IN  (/\ r # q
              /\ Commits(r)
              /\ req[q].pc = "done" /\ req[q].content = "ok"
              /\ req[q].point_id = id
              /\ req[q].row = req[r].row) =>
                 /\ req'[r].status = 200 /\ req[q].status = 200
                 /\ store'[id].ratings = Append(req[r].row, Rating(r))
                 /\ Len(store'[id].ratings) = Len(req[r].row) + 1]_vars

\* two submissions with different ratings read the same list, both were
\* answered 200, and the row holds one of the two ratings
C4_Witness ==
    \E r, q \in Reqs :
        /\ r # q
        /\ req[r].pc = "done" /\ req[r].content = "ok" /\ req[r].status = 200
        /\ req[q].pc = "done" /\ req[q].content = "ok" /\ req[q].status = 200
        /\ req[q].point_id = req[r].point_id
        /\ req[q].row = req[r].row
        /\ Rating(q) # Rating(r)
        /\ store[req[r].point_id].ratings = Append(req[r].row, Rating(r))

\* C7 (as claimed): a valid submission for an id without a row is answered
\* 404.
C7_MissingPointIs404 ==
    \A r \in Reqs :
        (/\ IsRate(r)
         /\ Validate(req[r].body).status = 0
         /\ req[r].point_id \notin DOMAIN store
         /\ req[r].pc = "done"
         /\ req[r].conn = "closed")
        => req[r].status = 404

\* C8 (as claimed): a submission whose body is no JSON object with a rating
\* field is answered 400, never 5xx.
C8_MalformedIs400 ==
    \A r \in Reqs :
        LET b == req[r].body
        IN  (/\ IsRate(r)
             /\ b.kind # "dict" \/ ~b.has
             /\ req[r].pc = "done"
             /\ req[r].status \notin {401, 403, 429})
            => req[r].status = 400

\* C10 (as claimed): no response is produced with the handler's connection
\* still open.
C10_ConnectionsClosed ==
    \A r \in Reqs : req[r].pc = "done" => req[r].conn # "open"

\* what the request carries as its API key
NoKey(r) == API_KEY_NAME \notin DOMAIN req[r].headers
EmptyKey(r) == ~NoKey(r) /\ req[r].headers[API_KEY_NAME] = ""
WrongKey(r) == ~NoKey(r) /\ req[r].headers[API_KEY_NAME] # API_KEY
\* the middleware answered the request itself, nothing else ran for it
Turned(r, status) ==
    /\ req[r].pc = "done" /\ req[r].status = status
    /\ req[r].conn = "none"

\* C5 (as claimed): a request without the header is answered 401 and one
\* whose header differs from the configured key is answered 403.
C5_MissingIs401WrongIs403 ==
    \A r \in Reqs :
        req[r].pc # "idle" =>
            /\ NoKey(r) => Turned(r, 401)
            /\ WrongKey(r) => Turned(r, 403)

\* C5 (amended): on every route, a request without the header or with an
\* empty one is answered 401 and one with another non-empty value that is
\* not the configured key 403; in the step that answers it the store and
\* the limiter stay as they were and no connection is opened; a request
\* with the configured key goes on to its route, and no other request is
\* ever anywhere but turned away.
C5_KeyGate ==
    /\ [](\A r \in Reqs :
            req[r].pc # "idle" =>
                /\ (NoKey(r) \/ EmptyKey(r)) => Turned(r, 401)
                /\ (WrongKey(r) /\ ~EmptyKey(r)) => Turned(r, 403)
                /\ (req[r].pc # "done" \/ req[r].status \notin {401, 403})
                       => (~NoKey(r) /\ ~WrongKey(r)))
    /\ [][\A r \in Reqs :
            (req[r].pc = "idle" /\ req'[r].pc = "done") =>
                (store' = store /\ limiter' = limiter)]_vars

\* requests were turned away on one server: one with an empty key with 401,
\* one with a wrong key with 403
C5_Witness ==
    \E r, q \in Reqs :
        /\ EmptyKey(r) /\ Turned(r, 401)
        /\ WrongKey(q) /\ ~EmptyKey(q) /\ Turned(q, 403)

\* the client a request counts for: the first entry of its forwarded-for
\* chain, else its peer address
ClientOf(r) ==
    IF XFF \in DOMAIN req[r].headers
    THEN req[r].headers[XFF][1].text
    ELSE req[r].peer
\* the request got past the limiter, into the handler body
Admitted(r) ==
    /\ IsRate(r)
    /\ req[r].pc \notin {"idle", "routed"}
    /\ req[r].status # 429

MarkerColor(avg) ==
    IF avg.null \/ avg.v <= 0 THEN "gray"
    ELSE IF avg.v <= 250 THEN "darkorange"
    ELSE IF avg.v <= 450 THEN "blue"
    ELSE "green"

\* C9 (as claimed): GET / answers 200 with a marker for every stored point
\* in the colour of its average, neutral for a point never rated.
C9_MapColors ==
    [][\A r \in Reqs :
         (req[r].pc = "routed" /\ req[r].route = "/" /\ req'[r].pc = "done") =>
             /\ req'[r].status = 200
             /\ req'[r].data = [i \in DOMAIN store |-> MarkerColor(store[i].avg)]]_vars
====
